---- MODULE Spec2Model ----
(***************************************************************************)
(* A model of the two components of src/.internal/charts/map/             *)
(* MapLineSeries.ts: the MapLineSeries class (data items, their MapLine    *)
(* shapes and the geometry computed for them) and the ExportingMenu class  *)
(* (open/closed state, rendered entries, keyboard navigation, disposal).   *)
(*                                                                         *)
(* SeriesSpec is the state machine of MapLineSeries, Spec the one of       *)
(* ExportingMenu and DisposalSpec the one of an ExportingMenu that is      *)
(* also re-parented and disposed.  NavSpec is the menu operated from the   *)
(* keyboard, for every short item list, and ItemsSpec the same menu while  *)
(* its item list is replaced.  Each leaves the other component's           *)
(* variables unchanged.                                                    *)
(***************************************************************************)
EXTENDS Integers, Sequences, FiniteSets, TLC

(***************************************************************************)
(* Bounds of the MapLineSeries model.                                      *)
(***************************************************************************)
\* number of data items ever pushed to the series
MaxItems == 2
\* number of point data items of the MapPointSeries the lines connect
NPoints == 2
\* longitudes and latitudes range over 0..MaxCoord
MaxCoord == 1
\* longest pointsToConnect array
MaxPts == 2

Points == 1..NPoints
ItemIds == 1..MaxItems
LineIds == 1..MaxItems
Coord == 0..MaxCoord

\* `undefined` for a numeric setting (a point without longitude/latitude yet)
Undef == 0 - 1
\* `undefined` for the pointsToConnect setting (0 is not a point)
NoPoints == <<0>>
\* `undefined` for the mapLine setting (0 is not a line)
NoLine == 0

(***************************************************************************)
(* GeoJSON geometries.  A LineString carries `coordinates`, a sequence of  *)
(* <<longitude, latitude>> pairs; a MultiLineString carries `lines`, a     *)
(* sequence of such sequences (its GeoJSON `coordinates`, kept in a field  *)
(* of its own so that both kinds are records of one shape).               *)
(***************************************************************************)
NoGeom == [type |-> "undefined", coordinates |-> <<>>, lines |-> <<>>]
LineString(cs) == [type |-> "LineString", coordinates |-> cs, lines |-> <<>>]
MultiLineString(ls) == [type |-> "MultiLineString", coordinates |-> <<>>, lines |-> ls]

\* the values of a data item's geometry field: none, or an explicit geometry
ItemGeometries ==
  { NoGeom,
    MultiLineString(<< << <<0, 0>>, <<1, 1>> >> >>) }

\* the pointsToConnect arrays a data item may be created with
PointSeqs == UNION { [1..n -> Points] : n \in 0..MaxPts }

VARIABLES
  \* ---- MapLineSeries ----
  dataItems,        \* this.dataItems: the data items currently in the series
  created,          \* number of data items processed so far
  mapLine,          \* dataItem.get("mapLine")
  pointsToConnect,  \* dataItem.get("pointsToConnect")
  geometry,         \* dataItem.get("geometry")
  mapLines,         \* this.mapLines: the ListTemplate's values, in order
  made,             \* number of MapLine objects made so far
  lineGeometry,     \* mapLine.get("geometry")
  lineDisposed,     \* mapLine.isDisposed()
  longitude,        \* point.get("longitude")
  latitude,         \* point.get("latitude")
  subs              \* subs[p][d]: handlers registered on point p for item d

seriesVars == << dataItems, created, mapLine, pointsToConnect, geometry,
                 mapLines, made, lineGeometry, lineDisposed, longitude,
                 latitude, subs >>

(***************************************************************************)
(* Helpers standing for the library calls the series makes.               *)
(***************************************************************************)
\* Entity.get(key, fallback): the fallback replaces an undefined value
get(value, fallback) == IF value = Undef THEN fallback ELSE value

RECURSIVE indexOf(_, _, _)
\* Array.indexOf, 1-based; 0 when absent.  from is the first index tried.
indexOf(seq, v, from) ==
  IF from > Len(seq) THEN 0
  ELSE IF seq[from] = v THEN from
  ELSE indexOf(seq, v, from + 1)

\* List.removeValue: removes the first occurrence of v, if any
removeValue(seq, v) ==
  LET i == indexOf(seq, v, 1) IN
  IF i = 0 THEN seq
  ELSE SubSeq(seq, 1, i - 1) \o SubSeq(seq, i + 1, Len(seq))

\* number of occurrences of p in the array pts
Occurrences(pts, p) == Cardinality({ i \in 1..Len(pts) : pts[i] = p })

(***************************************************************************)
(* MapLineSeries._markDirtyValues, lines 138-149: the geometry written to  *)
(* the line of a data item, from the longitudes lon and latitudes lat.     *)
(***************************************************************************)
coordinatesSwapped(pts, lon, lat) ==
  [ i \in 1..Len(pts) |-> << get(lat[pts[i]], 0), get(lon[pts[i]], 0) >> ]

coordinates(pts, lon, lat) ==
  [ i \in 1..Len(pts) |-> << get(lon[pts[i]], 0), get(lat[pts[i]], 0) >> ]

newGeometryAlwaysSynthesised(d, lon, lat) ==
  LineString(coordinates(IF pointsToConnect[d] # NoPoints
                         THEN pointsToConnect[d] ELSE <<>>, lon, lat))

newGeometry(d, lon, lat) ==
  IF pointsToConnect[d] # NoPoints
  THEN LineString(coordinates(pointsToConnect[d], lon, lat))
  ELSE geometry[d]

\* the lineGeometry after _markDirtyValues(d) has run for every d in ds
markedDirty(ds, lon, lat) ==
  [ l \in LineIds |->
      IF \E d \in ds : mapLine[d] = l
      THEN newGeometry(CHOOSE d \in ds : mapLine[d] = l, lon, lat)
      ELSE lineGeometry[l] ]

\* the data items whose handlers are registered on point p
subscribers(p) == { d \in ItemIds : subs[p][d] > 0 }

(***************************************************************************)
(* MapLineSeries.makeMapLine: the mapLines list after the new line l was   *)
(* pushed.                                                                 *)
(***************************************************************************)
makeMapLine(l) == Append(mapLines, l)

\* MapLineSeries.disposeDataItem, line 164: the list without the line
disposeDataItemListKept(l) == mapLines

disposeDataItemList(l) == removeValue(mapLines, l)

InitSeries ==
  /\ dataItems = {}
  /\ created = 0
  /\ mapLine = [d \in ItemIds |-> NoLine]
  /\ pointsToConnect = [d \in ItemIds |-> NoPoints]
  /\ geometry = [d \in ItemIds |-> NoGeom]
  /\ mapLines = <<>>
  /\ made = 0
  /\ lineGeometry = [l \in LineIds |-> NoGeom]
  /\ lineDisposed = [l \in LineIds |-> FALSE]
  /\ longitude \in [Points -> Coord \cup {Undef}]
  /\ latitude \in [Points -> Coord \cup {Undef}]
  /\ subs = [p \in Points |-> [d \in ItemIds |-> 0]]

(***************************************************************************)
(* A data item is pushed to the series: the component creates the         *)
(* DataItem with the given fields and calls processDataItem on it.         *)
(***************************************************************************)
processDataItem(pts, geom) ==
  /\ created < MaxItems
  /\ LET d == created + 1
         l == made + 1
     IN /\ created' = d
        /\ dataItems' = dataItems \cup {d}
        /\ pointsToConnect' = [pointsToConnect EXCEPT ![d] = pts]
        /\ geometry' = [geometry EXCEPT ![d] = geom]
        /\ made' = l
        /\ mapLines' = makeMapLine(l)
        /\ mapLine' = [mapLine EXCEPT ![d] = l]
        /\ subs' = IF pts # NoPoints
                   THEN [p \in Points |->
                          [subs[p] EXCEPT ![d] = @ + Occurrences(pts, p)]]
                   ELSE subs
  /\ UNCHANGED << lineGeometry, lineDisposed, longitude, latitude >>

\* the component recomputes a data item of the series (values dirty)
markDirtyValues(d) ==
  /\ d \in dataItems
  /\ lineGeometry' = markedDirty({d}, longitude, latitude)
  /\ UNCHANGED << dataItems, created, mapLine, pointsToConnect, geometry,
                  mapLines, made, lineDisposed, longitude, latitude, subs >>

\* dataItem.set("geometry", geom) on an item of the series
setGeometry(d, geom) ==
  /\ d \in dataItems
  /\ geom # geometry[d]
  /\ geometry' = [geometry EXCEPT ![d] = geom]
  /\ UNCHANGED << dataItems, created, mapLine, pointsToConnect, mapLines,
                  made, lineGeometry, lineDisposed, longitude, latitude, subs >>

\* point.set("longitude", v): the "longitude" handlers of lines 112-114 run
setLongitude(p, v) ==
  /\ v # longitude[p]
  /\ longitude' = [longitude EXCEPT ![p] = v]
  /\ lineGeometry' = markedDirty(subscribers(p), longitude', latitude)
  /\ UNCHANGED << dataItems, created, mapLine, pointsToConnect, geometry,
                  mapLines, made, lineDisposed, latitude, subs >>

\* point.set("latitude", v): the "latitude" handlers of lines 116-118 run
setLatitude(p, v) ==
  /\ v # latitude[p]
  /\ latitude' = [latitude EXCEPT ![p] = v]
  /\ lineGeometry' = markedDirty(subscribers(p), longitude, latitude')
  /\ UNCHANGED << dataItems, created, mapLine, pointsToConnect, geometry,
                  mapLines, made, lineDisposed, longitude, subs >>

\* the data item is removed from the series: disposeDataItem runs
disposeDataItem(d) ==
  /\ d \in dataItems
  /\ dataItems' = dataItems \ {d}
  /\ IF mapLine[d] # NoLine
     THEN /\ mapLines' = disposeDataItemList(mapLine[d])
          /\ lineDisposed' = [lineDisposed EXCEPT ![mapLine[d]] = TRUE]
     ELSE UNCHANGED << mapLines, lineDisposed >>
  /\ UNCHANGED << created, mapLine, pointsToConnect, geometry, made,
                  lineGeometry, longitude, latitude, subs >>

(***************************************************************************)
(* ExportingMenu.                                                          *)
(***************************************************************************)
\* longest queue of pending blur timeouts (Entity.setTimeout)
MaxTimers == 1

\* key codes tested by the keydown handler
KeyEsc == 27
KeyEnter == 13
KeyUp == 38
KeyDown == 40
\* some key the handler does not test
KeyOther == 65
Keys == {KeyEsc, KeyEnter, KeyUp, KeyDown, KeyOther}

\* a menu item object (IMenuItem); "" stands for an absent string field
MenuItem(t, f, e, l, cb) ==
  [type |-> t, format |-> f, exportType |-> e, label |-> l, callback |-> cb]

\* The menu item objects of the model: 1..12 are the default items of
\* _afterNew, in order; 13 is a custom item with a callback.
ITEM ==
  << MenuItem("separator", "", "", "Export", FALSE),
     MenuItem("format", "png", "image", "PNG", FALSE),
     MenuItem("format", "jpg", "image", "JPG", FALSE),
     MenuItem("format", "pdf", "image", "PDF", FALSE),
     MenuItem("separator", "", "data", "", FALSE),
     MenuItem("format", "json", "data", "JSON", FALSE),
     MenuItem("format", "csv", "data", "CSV", FALSE),
     MenuItem("format", "xlsx", "data", "XLSX", FALSE),
     MenuItem("format", "pdfdata", "data", "PDF", FALSE),
     MenuItem("format", "html", "data", "HTML", FALSE),
     MenuItem("separator", "", "", "", FALSE),
     MenuItem("format", "print", "print", "Print", FALSE),
     MenuItem("custom", "", "", "Custom", TRUE) >>

MenuItemIds == 1..Len(ITEM)
\* `undefined` for _activeItem (0 is not a menu item)
NoItem == 0

\* the default value of the items setting
DefaultItems == [ i \in 1..12 |-> i ]

\* the values of the items setting: the default list, a list with
\* separators at both ends, an empty list, a list of separators only
ItemLists == { DefaultItems, <<1, 2, 13, 12, 11>>, <<>>, <<1, 11>> }

\* The Exporting objects of the model, by what supportedFormats() and
\* supportedExportTypes() return: one limited to two formats, one with every
\* format but no data to export; exporting = 0 is no exporter.
EXPORTER ==
  << [formats |-> {"png", "csv"}, types |-> {"image", "data"}],
     [formats |-> {"png", "jpg", "pdf", "json", "csv", "xlsx", "pdfdata",
                   "html", "print"},
      types |-> {"image", "print"}] >>

\* longest item list of the keyboard model
MaxListLen == 3

\* The item lists of the keyboard model: every arrangement, without
\* repetition, of two separators, a format item and a custom item.
NavItems == {1, 11, 2, 13}
NavLists ==
  { l \in UNION { [1..n -> NavItems] : n \in 0..MaxListLen } :
      \A i, j \in 1..Len(l) : l[i] = l[j] => i = j }

NoExporting == 0
Exportings == 0..Len(EXPORTER)

\* document.activeElement: a menu item's anchor (the item's id), or one of
Body == 0                \* document.body: nothing focused
IconElement == 0 - 1     \* the menu's icon
InsideElement == 0 - 2   \* another element inside the root's container
OutsideElement == 0 - 3  \* an element outside every container
FocusTargets == {Body, IconElement, InsideElement, OutsideElement}

VARIABLES
  \* ---- ExportingMenu ----
  isOpen,               \* this.isOpen
  _isOver,              \* this._isOver
  _activeItem,          \* this._activeItem
  _itemElements,        \* this._itemElements, by the item each <li> renders
  element,              \* item.element: "none", "attached" or "detached"
  items,                \* get("items")
  exporting,            \* get("exporting")
  autoClose,            \* get("autoClose")
  inactivateRoot,       \* get("inactivateRoot")
  valign,               \* get("valign")
  container,            \* get("container"): "root" or "other"
  dirty,                \* the settings that are dirty
  menuParent,           \* parent of _menuElement: "root", "other", "none"
  listeners,            \* the document-level listeners still registered
  disposed,             \* isDisposed()
  interactionsEnabled,  \* _root._renderer.interactionsEnabled
  activeElement,        \* document.activeElement
  timers,               \* pending blur timeouts
  effects,              \* what the last handler dispatched and called
  error,                \* the last handler ended with an uncaught exception
  hung                  \* the last handler never returned

menuVars == << isOpen, _isOver, _activeItem, _itemElements, element, items,
               exporting, autoClose, inactivateRoot, valign, container,
               dirty, menuParent, listeners, disposed, interactionsEnabled,
               activeElement, timers, effects, error, hung >>

vars == << seriesVars, menuVars >>

\* the menu's state at the start of a handler
St ==
  [ isOpen |-> isOpen, isOver |-> _isOver, activeItem |-> _activeItem,
    itemElements |-> _itemElements, element |-> element, items |-> items,
    exporting |-> exporting, autoClose |-> autoClose,
    inactivateRoot |-> inactivateRoot, valign |-> valign,
    container |-> container, dirty |-> dirty, menuParent |-> menuParent,
    listeners |-> listeners, disposed |-> disposed,
    interactionsEnabled |-> interactionsEnabled,
    activeElement |-> activeElement, timers |-> timers,
    effects |-> <<>>, error |-> FALSE, hung |-> FALSE ]

\* the menu's state at the end of a handler
Set(s) ==
  /\ isOpen' = s.isOpen
  /\ _isOver' = s.isOver
  /\ _activeItem' = s.activeItem
  /\ _itemElements' = s.itemElements
  /\ element' = s.element
  /\ items' = s.items
  /\ exporting' = s.exporting
  /\ autoClose' = s.autoClose
  /\ inactivateRoot' = s.inactivateRoot
  /\ valign' = s.valign
  /\ container' = s.container
  /\ dirty' = s.dirty
  /\ menuParent' = s.menuParent
  /\ listeners' = s.listeners
  /\ disposed' = s.disposed
  /\ interactionsEnabled' = s.interactionsEnabled
  /\ activeElement' = s.activeElement
  /\ timers' = s.timers
  /\ effects' = s.effects
  /\ error' = s.error
  /\ hung' = s.hung

(***************************************************************************)
(* What a handler leaves behind: events dispatched, exporter operations    *)
(* and callbacks invoked, each with the value of isOpen at that moment.    *)
(***************************************************************************)
Effect(k, n, a, o) == [kind |-> k, name |-> n, arg |-> a, isOpen |-> o]

\* this.events.dispatch(type, ...)
dispatch(s, type) ==
  [s EXCEPT !.effects = Append(@, Effect("event", type, "", s.isOpen))]

\* an uncaught TypeError / DOMException ends the handler
throw(s) == [s EXCEPT !.error = TRUE]

\* the listeners createItems wires on an item's anchor, lines 605-623
Wiring(item) ==
  IF ITEM[item].callback THEN "callback"
  ELSE IF ITEM[item].format # "" THEN "format"
  ELSE "none"

\* ExportingMenu._handleItemBlur
_handleItemBlur(s, item) ==
  [s EXCEPT !.activeItem = IF item = s.activeItem THEN NoItem ELSE @,
            !.timers = @ + 1]

\* the blur listener of the element that loses the focus, if it has one
blurEvent(s, old) ==
  IF old \in MenuItemIds /\ Wiring(old) = "format"
  THEN _handleItemBlur(s, old)
  ELSE s

\* the focus moves to target; the element losing it receives a blur event
moveFocus(s, target) ==
  IF s.activeElement = target THEN s
  ELSE blurEvent([s EXCEPT !.activeElement = target], s.activeElement)

\* $utils.blur(): blurs document.activeElement unless it is the body
blur(s) == moveFocus(s, Body)

\* anchor.focus(): only an anchor in the document, with a tabindex, in a
\* displayed list (the default CSS hides the list of a closed menu) takes
\* the focus
focusable(s, item) ==
  /\ s.element[item] = "attached"
  /\ s.menuParent # "none"
  /\ Wiring(item) # "none"
  /\ s.isOpen

(***************************************************************************)
(* ExportingMenu.open / close / toggle, lines 684-710.                     *)
(***************************************************************************)
openDispatchesFirst(s) == [dispatch(s, "menuopened") EXCEPT !.isOpen = TRUE]

open(s) == dispatch([s EXCEPT !.isOpen = TRUE], "menuopened")

close(s) == dispatch(blur([s EXCEPT !.isOpen = FALSE]), "menuclosed")

toggleOpensOnly(s) == open(s)

toggle(s) == IF s.isOpen THEN close(s) ELSE open(s)

(***************************************************************************)
(* ExportingMenu._handleClick, lines 632-643.                              *)
(***************************************************************************)
exportCall(s, item) ==
  IF s.exporting = NoExporting THEN throw(s)
  ELSE IF ITEM[item].format = "print"
  THEN [s EXCEPT !.effects = Append(@, Effect("export", "print", "", s.isOpen))]
  ELSE [s EXCEPT !.effects =
          Append(@, Effect("export", "download", ITEM[item].format, s.isOpen))]

_handleClickExportsFirst(s, item) ==
  LET s1 == exportCall(s, item) IN
  IF s1.error THEN s1 ELSE IF s1.autoClose THEN close(s1) ELSE s1

_handleClick(s, item) ==
  exportCall(IF s.autoClose THEN close(s) ELSE s, item)

(***************************************************************************)
(* ExportingMenu._handleItemFocus, lines 645-654.  item.element.focus()    *)
(* re-enters the focus listener with item = _activeItem, which returns at  *)
(* once.                                                                   *)
(***************************************************************************)
_handleItemFocus(s, item) ==
  IF item = s.activeItem THEN s
  ELSE IF s.activeItem # NoItem /\ s.element[s.activeItem] = "none"
  THEN throw(s)
  ELSE LET s1 == [s EXCEPT !.activeItem = item] IN
       IF s.element[item] = "none" THEN throw(s1)
       ELSE IF focusable(s1, item) THEN moveFocus(s1, item)
       ELSE s1

(***************************************************************************)
(* The keydown handler, lines 425-469.  Indexes are those of the code      *)
(* (0-based); item k of the array is items[k + 1].                         *)
(***************************************************************************)
\* Array.indexOf(this._activeItem): -1 when absent or undefined
indexOfActive(s) == indexOf(s.items, s.activeItem, 1) - 1

RECURSIVE search(_, _, _, _)
\* the do/while loop: the index found ("found"), a TypeError on
\* items[newIndex].type ("throw"), or no end ("hang"); n counts iterations
search(its, newIndex, dir, n) ==
  LET wrapped == IF newIndex < 0 THEN Len(its) - 1
                 ELSE IF newIndex > Len(its) - 1 THEN 0
                 ELSE newIndex
  IN IF n > Len(its) THEN [kind |-> "hang", index |-> wrapped]
     ELSE IF wrapped < 0 \/ wrapped > Len(its) - 1
     THEN [kind |-> "throw", index |-> wrapped]
     ELSE IF ITEM[its[wrapped + 1]].type = "separator"
     THEN search(its, wrapped + dir, dir, n + 1)
     ELSE [kind |-> "found", index |-> wrapped]

arrowKeyUpStalls(s, key) ==
  LET found == indexOfActive(s)
      currentIndex == IF s.valign = "top" /\ found = 0 - 1
                      THEN Len(s.items) ELSE found
      dir == IF key = KeyUp THEN 0 ELSE 1
      r == search(s.items, currentIndex + dir, dir, 0)
  IN IF r.kind = "hang" THEN [s EXCEPT !.hung = TRUE]
     ELSE IF r.kind = "throw" THEN throw(s)
     ELSE _handleItemFocus(s, s.items[r.index + 1])

arrowKey(s, key) ==
  LET found == indexOfActive(s)
      currentIndex == IF s.valign = "top" /\ found = 0 - 1
                      THEN Len(s.items) ELSE found
      dir == IF key = KeyUp THEN 0 - 1 ELSE 1
      r == search(s.items, currentIndex + dir, dir, 0)
  IN IF r.kind = "hang" THEN [s EXCEPT !.hung = TRUE]
     ELSE IF r.kind = "throw" THEN throw(s)
     ELSE _handleItemFocus(s, s.items[r.index + 1])

keydownUnguarded(s, key) ==
  IF key = KeyEsc THEN close(s)
  ELSE IF key = KeyEnter
  THEN IF s.activeItem # NoItem THEN _handleClick(s, s.activeItem)
       ELSE toggle(s)
  ELSE IF key = KeyUp \/ key = KeyDown THEN arrowKey(s, key)
  ELSE s

keydown(s, key) ==
  IF ~(s.activeElement = IconElement \/ s.isOpen) THEN s
  ELSE IF key = KeyEsc THEN close(s)
  ELSE IF key = KeyEnter
  THEN IF s.activeItem # NoItem THEN _handleClick(s, s.activeItem)
       ELSE toggle(s)
  ELSE IF key = KeyUp \/ key = KeyDown THEN arrowKey(s, key)
  ELSE s

(***************************************************************************)
(* ExportingMenu.createItems, lines 563-630.                               *)
(***************************************************************************)
skippedByFormatOnly(item, e) ==
  ITEM[item].format # "" /\ ITEM[item].format \notin EXPORTER[e].formats

\* the two early returns of the loop body, lines 576-582
skipped(item, e) ==
  \/ ITEM[item].format # "" /\ ITEM[item].format \notin EXPORTER[e].formats
  \/ ITEM[item].exportType # ""
       /\ ITEM[item].exportType \notin EXPORTER[e].types

RECURSIVE eachItem(_, _, _)
\* $array.each(items, ...): the <li> elements pushed, from index k on
eachItem(its, e, k) ==
  IF k > Len(its) THEN <<>>
  ELSE IF skipped(its[k], e) THEN eachItem(its, e, k + 1)
  ELSE << its[k] >> \o eachItem(its, e, k + 1)

\* the focused anchor leaves the document: the focus falls back to the
\* body; whether the anchor still receives a blur event is up to the browser
unfocus(s, blurFires) ==
  IF s.activeElement \in MenuItemIds
  THEN IF blurFires THEN moveFocus(s, Body)
       ELSE [s EXCEPT !.activeElement = Body]
  ELSE s

createItemsAppends(s, blurFires) ==
  IF s.exporting = NoExporting THEN s
  ELSE LET s1 == unfocus(s, blurFires)
           rendered == eachItem(s.items, s.exporting, 1)
       IN [s1 EXCEPT
             !.itemElements = @ \o rendered,
             !.element = [ i \in MenuItemIds |->
                             IF \E k \in 1..Len(rendered) : rendered[k] = i
                             THEN "attached"
                             ELSE IF s.element[i] = "none" THEN "none"
                             ELSE "detached" ]]

createItems(s, blurFires) ==
  IF s.exporting = NoExporting THEN s
  ELSE LET s1 == unfocus(s, blurFires)
           rendered == eachItem(s.items, s.exporting, 1)
       IN [s1 EXCEPT
             !.itemElements = rendered,
             !.element = [ i \in MenuItemIds |->
                             IF \E k \in 1..Len(rendered) : rendered[k] = i
                             THEN "attached"
                             ELSE IF s.element[i] = "none" THEN "none"
                             ELSE "detached" ]]

(***************************************************************************)
(* ExportingMenu._beforeChanged, lines 518-551; the dirty flags are        *)
(* cleared when the pass ends.                                             *)
(***************************************************************************)
_beforeChanged(s, blurFires) ==
  LET s1 == IF Len(s.itemElements) = 0 THEN createItems(s, blurFires) ELSE s
      s2 == IF "exporting" \in s1.dirty /\ s1.exporting # NoExporting
            THEN createItems(s1, blurFires) ELSE s1
      s3 == IF "container" \in s2.dirty
            THEN [s2 EXCEPT !.menuParent = s2.container] ELSE s2
  IN [s3 EXCEPT !.dirty = {}]

(***************************************************************************)
(* Disposal: Entity.dispose runs the disposers of _afterNew in the order   *)
(* they were pushed: the keydown listener, the removal of _menuElement     *)
(* from _root._dom (lines 496-500), the click listener, the timeouts.      *)
(* removeChild throws when _menuElement is not a child of _root._dom, and  *)
(* the exception ends the disposal.                                        *)
(***************************************************************************)
removeMenuElement(s, blurFires) ==
  IF s.menuParent = "root"
  THEN LET s1 == unfocus(s, blurFires) IN
       [s1 EXCEPT !.menuParent = "none",
                  !.activeElement = IF @ = IconElement THEN Body ELSE @]
  ELSE throw(s)

dispose(s, blurFires) ==
  IF s.disposed THEN s
  ELSE LET s1 == [s EXCEPT !.disposed = TRUE, !.listeners = @ \ {"keydown"}]
           s2 == removeMenuElement(s1, blurFires)
       IN IF s2.error THEN s2
          ELSE [s2 EXCEPT !.listeners = @ \ {"click"}, !.timers = 0]

\* $utils.contains(get("container"), document.activeElement)
inContainer(s) ==
  \/ s.activeElement = InsideElement /\ s.container = "root"
  \/ /\ s.activeElement = IconElement \/ s.activeElement \in MenuItemIds
     /\ s.menuParent = s.container

blurTimeoutAlwaysCloses(s) == close([s EXCEPT !.timers = @ - 1])

\* the callback of the timeout of _handleItemBlur, lines 661-665
blurTimeout(s) ==
  LET s1 == [s EXCEPT !.timers = @ - 1] IN
  IF ~inContainer(s1) THEN close(s1) ELSE s1

\* the pointerover / pointerout listeners, lines 482-494
pointerover(s) ==
  [s EXCEPT !.isOver = TRUE,
            !.interactionsEnabled = IF s.inactivateRoot THEN FALSE ELSE @]

pointerout(s) ==
  [s EXCEPT !.isOver = FALSE,
            !.interactionsEnabled = IF s.inactivateRoot THEN TRUE ELSE @]

documentClickAlwaysCloses(s) == close(s)

\* the document click listener, lines 502-506
documentClick(s) == IF ~s.isOver THEN close(s) ELSE s

\* the click listeners of an item's anchor, lines 605-614
anchorClick(s, item) ==
  IF Wiring(item) = "callback"
  THEN [s EXCEPT !.effects = Append(@, Effect("callback", "menu", "", s.isOpen))]
  ELSE IF Wiring(item) = "format" THEN _handleClick(s, item)
  ELSE s

(***************************************************************************)
(* The state after ExportingMenu.new(root, settings) and _afterNew.  The   *)
(* settings autoClose, inactivateRoot and valign are read by one handler   *)
(* each (_handleClick, the pointer listeners, the arrow keys); the model   *)
(* takes them either all at their defaults or all at the other value.      *)
(***************************************************************************)
InitMenu ==
  /\ isOpen = FALSE
  /\ _isOver = FALSE
  /\ _activeItem = NoItem
  /\ _itemElements = <<>>
  /\ element = [ i \in MenuItemIds |-> "none" ]
  /\ items \in ItemLists
  /\ exporting = NoExporting
  /\ autoClose \in BOOLEAN
  /\ inactivateRoot = autoClose
  /\ valign = IF autoClose THEN "top" ELSE "bottom"
  /\ container = "root"
  /\ dirty = {}
  /\ menuParent = "root"
  /\ listeners = {"keydown", "click"}
  /\ disposed = FALSE
  /\ interactionsEnabled = TRUE
  /\ activeElement = Body
  /\ timers = 0
  /\ effects = << Effect("event", "menucreated", "", FALSE) >>
  /\ error = FALSE
  /\ hung = FALSE

(***************************************************************************)
(* The operations of ExportingMenu: the public methods, the listeners      *)
(* (an event is delivered to a listener that is still registered, and has  *)
(* no effect otherwise), the settings and the framework's passes.  No      *)
(* handler starts while an earlier one has not returned.                   *)
(***************************************************************************)
Handler(s) == s.timers <= MaxTimers /\ Set(s) /\ UNCHANGED seriesVars

Open ==
  /\ ~hung
  /\ Handler(open(St))

Close ==
  /\ ~hung
  /\ Handler(close(St))

Toggle ==
  /\ ~hung
  /\ Handler(toggle(St))

CreateItems(blurFires) ==
  /\ ~hung
  /\ Handler(createItems(St, blurFires))

Keydown(key) ==
  /\ ~hung
  /\ Handler(IF "keydown" \in listeners THEN keydown(St, key) ELSE St)

DocumentClick ==
  /\ ~hung
  /\ Handler(IF "click" \in listeners THEN documentClick(St) ELSE St)

\* the icon's click listener, lines 472-475
IconClick ==
  /\ ~hung
  /\ menuParent # "none"
  /\ Handler(toggle(St))

AnchorClick(item) ==
  /\ ~hung
  /\ element[item] = "attached"
  /\ menuParent # "none"
  /\ Wiring(item) # "none"
  /\ Handler(anchorClick(St, item))

PointerOver ==
  /\ ~hung
  /\ menuParent # "none"
  /\ Handler(pointerover(St))

PointerOut ==
  /\ ~hung
  /\ menuParent # "none"
  /\ Handler(pointerout(St))

\* the user moves the focus (Tab, a click) to an element outside the menu
\* or to the menu's icon
FocusElement(target) ==
  /\ ~hung
  /\ target = IconElement => menuParent # "none"
  /\ target # activeElement
  /\ Handler(moveFocus(St, target))

\* the user moves the focus to an item's anchor: its focus listener runs
FocusAnchor(item) ==
  /\ ~hung
  /\ focusable(St, item)
  /\ item # activeElement
  /\ Handler(LET s1 == moveFocus(St, item) IN
             IF Wiring(item) = "format" THEN _handleItemFocus(s1, item) ELSE s1)

BlurTimeout ==
  /\ ~hung
  /\ timers > 0
  /\ Handler(blurTimeout(St))

\* menu.set("exporting", e)
SetExporting(e) ==
  /\ ~hung
  /\ e # exporting
  /\ ~disposed
  /\ Handler([St EXCEPT !.exporting = e, !.dirty = @ \cup {"exporting"}])

\* menu.set("container", c)
SetContainer(c) ==
  /\ ~hung
  /\ c # container
  /\ ~disposed
  /\ Handler([St EXCEPT !.container = c, !.dirty = @ \cup {"container"}])

\* menu.set("items", l)
SetItems(l) ==
  /\ ~hung
  /\ l # items
  /\ ~disposed
  /\ Handler([St EXCEPT !.items = l, !.dirty = @ \cup {"items"}])

\* the root's change-processing pass reaches the menu
BeforeChanged(blurFires) ==
  /\ ~hung
  /\ ~disposed
  /\ Handler(_beforeChanged(St, blurFires))

Dispose(blurFires) ==
  /\ ~hung
  /\ ~disposed
  /\ Handler(dispose(St, blurFires))

\* the menu in use
NextMenu ==
  \/ Open
  \/ Close
  \/ Toggle
  \/ \E b \in BOOLEAN : CreateItems(b)
  \/ \E key \in Keys : Keydown(key)
  \/ DocumentClick
  \/ IconClick
  \/ \E item \in MenuItemIds : AnchorClick(item)
  \/ PointerOver
  \/ PointerOut
  \/ \E target \in FocusTargets : FocusElement(target)
  \/ \E item \in MenuItemIds : FocusAnchor(item)
  \/ BlurTimeout
  \/ \E e \in Exportings : SetExporting(e)
  \/ \E b \in BOOLEAN : BeforeChanged(b)

\* the menu in use, re-parented and disposed
NextDisposal ==
  \/ NextMenu
  \/ \E c \in {"root", "other"} : SetContainer(c)
  \/ \E b \in BOOLEAN : Dispose(b)

\* the series before any data, with unpositioned points
SeriesIdle ==
  /\ InitSeries
  /\ longitude = [p \in Points |-> Undef]
  /\ latitude = [p \in Points |-> Undef]

\* the menu as created with default settings
MenuIdle ==
  /\ InitMenu
  /\ items = DefaultItems
  /\ autoClose

\* a new menu next to a series without data
Init == InitMenu /\ SeriesIdle

Spec == Init /\ [][NextMenu]_vars

\* a new menu with a short item list
InitDisposal == InitMenu /\ items = <<1, 2, 13, 12, 11>> /\ SeriesIdle

\* the life of a menu up to its disposal
DisposalSpec == InitDisposal /\ [][NextDisposal]_vars

\* the menu operated from the keyboard
NextNav ==
  \/ Open
  \/ Close
  \/ \E key \in Keys : Keydown(key)
  \/ \E e \in Exportings : SetExporting(e)
  \/ \E b \in BOOLEAN : BeforeChanged(b)

\* a new menu with any of the lists of NavLists
InitNav ==
  /\ items \in NavLists
  /\ isOpen = FALSE
  /\ _isOver = FALSE
  /\ _activeItem = NoItem
  /\ _itemElements = <<>>
  /\ element = [ i \in MenuItemIds |-> "none" ]
  /\ exporting = NoExporting
  /\ autoClose \in BOOLEAN
  /\ inactivateRoot = autoClose
  /\ valign = IF autoClose THEN "top" ELSE "bottom"
  /\ container = "root"
  /\ dirty = {}
  /\ menuParent = "root"
  /\ listeners = {"keydown", "click"}
  /\ disposed = FALSE
  /\ interactionsEnabled = TRUE
  /\ activeElement = Body
  /\ timers = 0
  /\ effects = << Effect("event", "menucreated", "", FALSE) >>
  /\ error = FALSE
  /\ hung = FALSE
  /\ SeriesIdle

NavSpec == InitNav /\ [][NextNav]_vars

\* the menu operated from the keyboard while its item list is replaced
NextItems ==
  \/ NextNav
  \/ \E l \in ItemLists : SetItems(l)

\* a new menu with a short item list and the default settings
InitItems == InitMenu /\ items = <<1, 2, 13, 12, 11>> /\ autoClose /\ SeriesIdle

ItemsSpec == InitItems /\ [][NextItems]_vars

NextSeries ==
  \/ \E pts \in PointSeqs \cup {NoPoints}, geom \in ItemGeometries :
       processDataItem(pts, geom)
  \/ \E d \in ItemIds : markDirtyValues(d)
  \/ \E d \in ItemIds, geom \in ItemGeometries : setGeometry(d, geom)
  \/ \E p \in Points, v \in Coord : setLongitude(p, v)
  \/ \E p \in Points, v \in Coord : setLatitude(p, v)
  \/ \E d \in ItemIds : disposeDataItem(d)

\* a new series next to a menu with default settings
InitSeriesSpec == InitSeries /\ MenuIdle

SeriesSpec == InitSeriesSpec /\ [][NextSeries /\ UNCHANGED menuVars]_vars

(***************************************************************************)
(* Properties of ExportingMenu.                                            *)
(***************************************************************************)
menuopened(o) == Effect("event", "menuopened", "", o)
menuclosed(o) == Effect("event", "menuclosed", "", o)

\* C1: a new menu is closed; open() leaves isOpen true, close() leaves it
\* false and toggle() leaves it negated, whatever the state they are
\* called in.
C1_OpenClosedState ==
  /\ ~isOpen
  /\ [][ /\ Open => isOpen'
         /\ Close => ~isOpen'
         /\ Toggle => (isOpen' = ~isOpen)
       ]_vars

\* the menu was opened
C1_Witness ==
  /\ isOpen
  /\ Len(effects) = 1
  /\ effects[1].name = "menuopened"

\* C2: open() dispatches exactly one menuopened and close() exactly one
\* menuclosed, each with isOpen already at its new value; toggle()
\* dispatches the event of the state it moves to.
C2_EventsFollowCalls ==
  [][ /\ Open => effects' = << menuopened(TRUE) >>
      /\ Close => effects' = << menuclosed(FALSE) >>
      /\ Toggle => effects' = << IF isOpen THEN menuclosed(FALSE)
                                 ELSE menuopened(TRUE) >>
    ]_vars

\* the menu was closed while an item had the focus
C2_Witness ==
  /\ ~isOpen
  /\ effects = << menuclosed(FALSE) >>
  /\ timers > 0

\* an item names no unsupported format and no unsupported export type
supported(item, e) ==
  /\ ITEM[item].format = "" \/ ITEM[item].format \in EXPORTER[e].formats
  /\ ITEM[item].exportType = "" \/ ITEM[item].exportType \in EXPORTER[e].types

\* the entries the claims prescribe for the current items and exporter
ExpectedEntries == SelectSeq(items, LAMBDA item : supported(item, exporting))

\* C6: with an exporter attached, createItems() leaves one entry for each
\* configured item that names no unsupported format or export type, in
\* declaration order, whatever was rendered before, and a second
\* createItems() leaves the same entries.
C6_CreateItemsFiltering ==
  exporting # NoExporting =>
    \A b \in BOOLEAN :
      LET once == createItems(St, b)
          twice == createItems(once, b)
      IN /\ once.itemElements = ExpectedEntries
         /\ twice.itemElements = once.itemElements
         /\ \A item \in MenuItemIds :
              (once.element[item] = "attached")
                <=> \E k \in 1..Len(ExpectedEntries) : ExpectedEntries[k] = item

\* the default list rendered for the exporter without data: the data
\* separator and the data formats are left out
C6_Witness ==
  /\ items = DefaultItems
  /\ exporting = 2
  /\ _itemElements = <<1, 2, 3, 4, 11, 12>>

\* the labels of the rendered entries that have one
Labels(entries) ==
  { ITEM[entries[k]].label : k \in 1..Len(entries) } \ {""}

FormatLabels(entries) ==
  { ITEM[entries[k]].label :
      k \in { j \in 1..Len(entries) : ITEM[entries[j]].type = "format" } }

defaultLimited == items = DefaultItems /\ exporting = 1

\* C7 as claimed: with the default items and the exporter of {png, csv},
\* {image, data}, createItems() renders the PNG and CSV entries only, and
\* the labels of the rendered entries are PNG and CSV.
C7_OnlyPngCsv ==
  defaultLimited =>
    \A b \in BOOLEAN :
      LET rendered == createItems(St, b).itemElements
      IN /\ rendered = <<2, 7>>
         /\ Labels(rendered) = {"PNG", "CSV"}

\* C7 as amended: PNG and CSV are the only format entries rendered; the
\* three separators, which name no format, are rendered with them, the
\* first under the label Export.
C7_PngCsvAndSeparators ==
  defaultLimited =>
    \A b \in BOOLEAN :
      LET rendered == createItems(St, b).itemElements
      IN /\ rendered = <<1, 2, 5, 7, 11>>
         /\ FormatLabels(rendered) = {"PNG", "CSV"}
         /\ Labels(rendered) = {"Export", "PNG", "CSV"}

\* the default list was rendered for that exporter
C7_Witness ==
  /\ defaultLimited
  /\ _itemElements = <<1, 2, 5, 7, 11>>
  /\ element[3] = "none"

\* the non-separator items of the configured list, in declaration order
Interactive == SelectSeq(items, LAMBDA item : ITEM[item].type # "separator")

\* the item after (dir = 1) or before (dir = -1) item a in the circle of
\* the non-separator items; from no item, the first or the last
Neighbour(a, dir) ==
  LET n == Len(Interactive)
      k == indexOf(Interactive, a, 1)
  IN IF k = 0 THEN (IF dir = 1 THEN Interactive[1] ELSE Interactive[n])
     ELSE Interactive[((k - 1 + dir + n) % n) + 1]

\* the keydown handler acts on the key
acts == "keydown" \in listeners /\ (activeElement = IconElement \/ isOpen)

\* C8: with a non-separator item in the list, Down makes the next
\* non-separator item active, starting from the first and wrapping after
\* the last; Up from the first, or from no item in a top-aligned menu,
\* makes the last one active; no arrow key makes a separator active.
C8_ArrowNavigation ==
  [][ (acts /\ Len(Interactive) > 0)
        => /\ Keydown(KeyDown) => _activeItem' = Neighbour(_activeItem, 1)
           /\ ( /\ Keydown(KeyUp)
                /\ \/ _activeItem = Interactive[1]
                   \/ _activeItem = NoItem /\ valign = "top" )
                => _activeItem' = Interactive[Len(Interactive)]
           /\ (Keydown(KeyDown) \/ Keydown(KeyUp))
                => /\ _activeItem' # NoItem
                   /\ ITEM[_activeItem'].type # "separator"
    ]_vars

\* C9: once the menu is disposed its root element is out of the document
\* and no document-level listener is left, so that a key or a document
\* click leaves isOpen and the active item as they are and dispatches
\* nothing.
C9_DisposalReleasesAll ==
  /\ [](disposed => (menuParent = "none" /\ listeners = {}))
  /\ [][ (disposed /\ (DocumentClick \/ \E key \in Keys : Keydown(key)))
           => /\ isOpen' = isOpen
              /\ _activeItem' = _activeItem
              /\ effects' = <<>>
       ]_vars

\* the exporter operation of a format item
exportOf(item, o) ==
  IF ITEM[item].format = "print" THEN Effect("export", "print", "", o)
  ELSE Effect("export", "download", ITEM[item].format, o)

\* C10: a click on a format item first closes the menu if autoClose is
\* set, and leaves isOpen alone if not; then it invokes one exporter
\* operation: print() for the print item, download(format) for another.
C10_ClickExports ==
  [][ \A item \in MenuItemIds :
        (Wiring(item) = "format" /\ exporting # NoExporting
           /\ AnchorClick(item))
          => IF autoClose
             THEN /\ ~isOpen'
                  /\ effects' = << menuclosed(FALSE), exportOf(item, FALSE) >>
             ELSE /\ isOpen' = isOpen
                  /\ effects' = << exportOf(item, isOpen) >>
    ]_vars

\* the print item of an open menu was clicked, autoClose unset
C10_Witness ==
  /\ ~autoClose
  /\ isOpen
  /\ effects = << Effect("export", "print", "", TRUE) >>

\* the events and calls of a handler that are menuopened events
opened(fx) == { k \in 1..Len(fx) : fx[k].name = "menuopened" }

\* C11: a key pressed while neither the icon has the focus nor the menu is
\* open changes nothing; otherwise Escape leaves the menu closed, Enter
\* without an active item negates isOpen, and Enter with an active item
\* applies the click handling to that item (for a format item of a menu
\* with an exporter: the export of that item, after closing if autoClose
\* is set) and does not toggle: isOpen is cleared if autoClose is set and
\* kept otherwise, and the menu is never opened.
C11_EscapeEnter ==
  \A key \in Keys :
    LET s == keydown(St, key) IN
    IF ~(activeElement = IconElement \/ isOpen) THEN s = St
    ELSE /\ key = KeyEsc => ~s.isOpen
         /\ (key = KeyEnter /\ _activeItem = NoItem) => s.isOpen = ~isOpen
         /\ (key = KeyEnter /\ _activeItem # NoItem)
              => /\ s.isOpen = (IF autoClose THEN FALSE ELSE isOpen)
                 /\ opened(s.effects) = {}
                 /\ (exporting # NoExporting
                       /\ ITEM[_activeItem].type = "format")
                      => s.effects =
                           IF autoClose
                           THEN << menuclosed(FALSE),
                                   exportOf(_activeItem, FALSE) >>
                           ELSE << exportOf(_activeItem, isOpen) >>

\* Enter exported the focused, active item of a menu that stays open
C11_Witness ==
  /\ isOpen
  /\ ~autoClose
  /\ _activeItem # NoItem
  /\ activeElement = _activeItem
  /\ effects = << exportOf(_activeItem, TRUE) >>

\* C12: without an exporter a click on a rendered entry is a silent no-op
\* (no error, no exporter operation, nothing changed), and createItems()
\* leaves the rendered list as it is.
C12_NoExporterNoOp ==
  exporting = NoExporting =>
    /\ \A item \in MenuItemIds :
         (element[item] = "attached" /\ Wiring(item) = "format")
           => /\ ~anchorClick(St, item).error
              /\ anchorClick(St, item).effects = <<>>
    /\ \A b \in BOOLEAN :
         createItems(St, b).itemElements = _itemElements

\* C13: on a menu with rendered entries and an exporter, the pass that
\* follows a change of the items setting runs createItems(), so that the
\* rendered entries are those of the new list.
C13_ItemsChangeRebuilds ==
  ("items" \in dirty /\ Len(_itemElements) > 0 /\ exporting # NoExporting)
    => \A b \in BOOLEAN :
         _beforeChanged(St, b).itemElements = ExpectedEntries

\* C14: Enter on an active item that has a rendered entry does what a
\* click on that entry does: the export for a format item, the callback
\* for a custom item.
C14_EnterEqualsClick ==
  ( /\ activeElement = IconElement \/ isOpen
    /\ _activeItem # NoItem
    /\ element[_activeItem] = "attached" )
    => keydown(St, KeyEnter) = anchorClick(St, _activeItem)

\* C15: when the anchor of a format item (the items whose anchors have the
\* blur listener) loses the focus, nothing is closed at once and one
\* timeout is left pending; when the timeout fires while another menu
\* item, or anything else inside the container, has the focus, the menu
\* stays as it is and nothing is dispatched; when it fires while the focus
\* is outside the container, the menu is closed.
C15_DebouncedBlurClose ==
  /\ \A target \in FocusTargets \cup MenuItemIds :
       ( /\ activeElement \in MenuItemIds
         /\ Wiring(activeElement) = "format"
         /\ target # activeElement )
         => LET s == moveFocus(St, target)
            IN /\ s.timers = timers + 1
               /\ s.isOpen = isOpen
               /\ s.effects = <<>>
  /\ timers > 0
       => LET s == blurTimeout(St)
          IN /\ s.timers = timers - 1
             /\ activeElement \in MenuItemIds \cup {IconElement, InsideElement}
                  => /\ s.isOpen = isOpen
                     /\ s.effects = <<>>
             /\ activeElement \in {Body, OutsideElement}
                  => /\ ~s.isOpen
                     /\ s.effects = << menuclosed(FALSE) >>

\* the focus went from one format item to another: the timeout of the
\* first is pending, the menu is open and the second is the active item
C15_Witness ==
  /\ isOpen
  /\ timers > 0
  /\ activeElement \in MenuItemIds
  /\ Wiring(activeElement) = "format"
  /\ _activeItem = activeElement
  /\ effects = <<>>

\* C17: with a non-separator item in the list, the search of an Up or
\* Down key ends on a non-separator item, from every index it can start
\* at and in both directions, and the key's handler returns; the search
\* throws on an empty list and never ends on a list of separators only,
\* and in no other case.
C17_SearchTerminates ==
  /\ \A dir \in {0 - 1, 1}, start \in (0 - 2)..(Len(items) + 1) :
       LET r == search(items, start, dir, 0) IN
       IF Len(Interactive) > 0
       THEN /\ r.kind = "found"
            /\ ITEM[items[r.index + 1]].type # "separator"
       ELSE r.kind = IF Len(items) = 0 THEN "throw" ELSE "hang"
  /\ (activeElement = IconElement \/ isOpen)
       => \A key \in {KeyUp, KeyDown} :
            LET s == keydown(St, key) IN
            /\ s.hung <=> (Len(items) > 0 /\ Len(Interactive) = 0)
            /\ Len(items) = 0 => s.error
            /\ s.activeItem # _activeItem
                 => /\ s.activeItem # NoItem
                    /\ ITEM[s.activeItem].type # "separator"

\* an arrow key found the item between a leading and a trailing separator
\* of a top-aligned menu
C17_Witness ==
  /\ Len(items) > 2
  /\ ITEM[items[1]].type = "separator"
  /\ ITEM[items[Len(items)]].type = "separator"
  /\ valign = "top"
  /\ _activeItem # NoItem
  /\ ~error
  /\ ~hung

\* C19: pointer-over sets the hover flag and pointer-out clears it; with
\* inactivateRoot set the first disables and the second re-enables the
\* root's interaction, so that the root is interactive exactly while the
\* pointer is not over the menu, and with inactivateRoot unset neither
\* touches the root's interaction flag.  A document click closes the menu
\* if the hover flag is false, and changes nothing if it is true.
C19_PointerAndOutsideClick ==
  /\ LET s == pointerover(St)
     IN /\ s.isOver
        /\ s.interactionsEnabled =
             (IF inactivateRoot THEN FALSE ELSE interactionsEnabled)
  /\ LET s == pointerout(St)
     IN /\ ~s.isOver
        /\ s.interactionsEnabled =
             (IF inactivateRoot THEN TRUE ELSE interactionsEnabled)
  /\ interactionsEnabled = (IF inactivateRoot THEN ~_isOver ELSE TRUE)
  /\ LET s == documentClick(St)
     IN IF _isOver
        THEN /\ s.isOpen = isOpen
             /\ s.effects = <<>>
        ELSE /\ ~s.isOpen
             /\ s.effects = << menuclosed(FALSE) >>

\* the pointer is over an open menu whose root is inactivated
C19_Witness ==
  /\ _isOver
  /\ inactivateRoot
  /\ ~interactionsEnabled
  /\ isOpen
  /\ effects = <<>>

\* C20: an arrow key makes active only an item that is rendered, and
\* raises no error, as long as the list has a non-separator item: an item
\* that createItems() filtered out, or any item of a list that was never
\* built, is never made active.
C20_NavigationOverRendered ==
  ( /\ activeElement = IconElement \/ isOpen
    /\ Len(Interactive) > 0 )
    => \A key \in {KeyUp, KeyDown} :
         LET s == keydown(St, key) IN
         /\ ~s.error
         /\ s.activeItem # _activeItem => s.element[s.activeItem] = "attached"

\* C21: a closed menu has no active item, so that Enter on the focused
\* icon of a closed menu opens the menu and calls no exporter operation.
C21_ActiveOnlyWhileOpen ==
  /\ ~isOpen => _activeItem = NoItem
  /\ (~isOpen /\ activeElement = IconElement)
       => LET s == keydown(St, KeyEnter)
          IN /\ s.isOpen
             /\ s.effects = << menuopened(TRUE) >>

(***************************************************************************)
(* Properties of MapLineSeries.                                            *)
(***************************************************************************)
\* the data items that were processed and later removed
removedItems == (1..created) \ dataItems

\* C3: the mapLines collection holds exactly one line per present data
\* item: each present item refers to a line of its own, undisposed and once
\* in the collection; the line of every removed item is disposed and gone
\* from the collection.
C3_LineOwnership ==
  /\ \A d \in dataItems :
       /\ mapLine[d] # NoLine
       /\ ~lineDisposed[mapLine[d]]
       /\ Occurrences(mapLines, mapLine[d]) = 1
  /\ \A d1, d2 \in dataItems : d1 # d2 => mapLine[d1] # mapLine[d2]
  /\ Len(mapLines) = Cardinality(dataItems)
  /\ \A d \in removedItems :
       /\ mapLine[d] # NoLine
       /\ lineDisposed[mapLine[d]]
       /\ Occurrences(mapLines, mapLine[d]) = 0

\* one item was removed and a later one is still present
C3_Witness ==
  /\ created = 2
  /\ dataItems = {2}
  /\ mapLines = << mapLine[2] >>
  /\ lineDisposed[mapLine[1]]

\* the LineString the claim prescribes for item d: one [lon, lat] pair per
\* connected point, in list order, 0 for a missing longitude or latitude
ExpectedLine(d) ==
  [ type |-> "LineString",
    coordinates |->
      [ i \in 1..Len(pointsToConnect[d]) |->
          << IF longitude[pointsToConnect[d][i]] = Undef
             THEN 0 ELSE longitude[pointsToConnect[d][i]],
             IF latitude[pointsToConnect[d][i]] = Undef
             THEN 0 ELSE latitude[pointsToConnect[d][i]] >> ],
    lines |-> <<>> ]

connects(d, p) ==
  /\ pointsToConnect[d] # NoPoints
  /\ \E i \in 1..Len(pointsToConnect[d]) : pointsToConnect[d][i] = p

\* C4: recomputing an item with pointsToConnect sets its line's geometry to
\* the LineString of the points' [longitude, latitude] pairs in list order
\* (0 for a missing value), and after a change of a connected point's
\* longitude or latitude the line's geometry is that LineString for the new
\* values.
C4_GeometryFromPoints ==
  [][ /\ \A d \in ItemIds :
           (markDirtyValues(d) /\ pointsToConnect[d] # NoPoints)
             => lineGeometry'[mapLine[d]] = ExpectedLine(d)'
      /\ \A p \in Points :
           (longitude'[p] # longitude[p] \/ latitude'[p] # latitude[p])
             => \A d \in dataItems :
                  connects(d, p) => lineGeometry'[mapLine[d]] = ExpectedLine(d)'
    ]_vars

\* a line through two different points, one of them without a longitude,
\* whose geometry is the recomputed one
C4_Witness ==
  \E d \in dataItems :
    /\ pointsToConnect[d] = <<2, 1>>
    /\ longitude[2] = Undef
    /\ latitude[2] = 1
    /\ longitude[1] = 1
    /\ lineGeometry[mapLine[d]] = LineString(<< <<0, 1>>, <<1, latitude[1]>> >>)
    /\ latitude[1] = 0

\* C5: recomputing an item without pointsToConnect sets its line's geometry
\* to the item's geometry field as stored, also after the field was
\* changed; a point's change never touches such a line.
C5_ExplicitGeometry ==
  [][ /\ \A d \in ItemIds :
           (markDirtyValues(d) /\ pointsToConnect[d] = NoPoints)
             => lineGeometry'[mapLine[d]] = geometry[d]
      /\ \A p \in Points :
           (longitude'[p] # longitude[p] \/ latitude'[p] # latitude[p])
             => \A d \in dataItems :
                  pointsToConnect[d] = NoPoints
                    => lineGeometry'[mapLine[d]] = lineGeometry[mapLine[d]]
    ]_vars

\* an item without pointsToConnect whose geometry field was changed to a
\* MultiLineString, and whose line carries that value
C5_Witness ==
  \E d \in dataItems :
    /\ pointsToConnect[d] = NoPoints
    /\ geometry[d].type = "MultiLineString"
    /\ lineGeometry[mapLine[d]] = geometry[d]
    /\ \E p \in Points : subscribers(p) # {}

\* C16: a change of a connected point's longitude or latitude does not
\* itself recompute the line: the geometry of every line stays as it is
\* until the pass that recomputes the data item (markDirtyValues), so that
\* several changes before that pass cost one recomputation.
C16_ChangesCollapse ==
  [][ \A p \in Points :
        (longitude'[p] # longitude[p] \/ latitude'[p] # latitude[p])
          => lineGeometry' = lineGeometry
    ]_vars

\* C18: once disposeDataItem has run for a data item, the item refers to
\* no line, and the line it had is out of mapLines and disposed.
C18_RemovalReleases ==
  /\ \A d \in removedItems : mapLine[d] = NoLine
  /\ \A l \in 1..made :
       (\A e \in dataItems : mapLine[e] # l)
         => (lineDisposed[l] /\ Occurrences(mapLines, l) = 0)

\* C22: the geometry of a disposed line is never written again: no step,
\* in particular no change of a point the removed item was connected to,
\* changes the geometry of a line that is disposed.
C22_NoWriteToDisposedLine ==
  [][ \A l \in LineIds :
        lineDisposed[l] => lineGeometry'[l] = lineGeometry[l]
    ]_vars

====
